---- MODULE Spec2Model ----
(***************************************************************************)
(* State-machine model of the user-account controller (user.controller):   *)
(* registration with e-mail OTP, OTP resend/verification, login, admin     *)
(* login, forgot/reset/change password, soft deletion, the admin's user   *)
(* listing and the seeding routine.  Every handler is split at the awaits  *)
(* where other                                                             *)
(* requests can interleave; the persistence layer is the users and otps    *)
(* collections.                                                            *)
(***************************************************************************)
EXTENDS Integers, Sequences, FiniteSets, TLC

\* ---------------------------------------------------------------- bounds
MaxTicks == 3
TickMs == 25500
\* 60 * 1000 ms: the OTP expiry used by the registration background phase
OtpTtlMs == 60000
MaxNow == MaxTicks * TickMs
\* the largest number of users a listing matches
MaxUsers == 25

\* ---------------------------------------------------------------- inputs
SeedAdmins == <<"showershareny@gmail.com", "admin@gmail.com">>
SeedPassword == "1qazxsw2"
UserEmail == "user@mail"
Emails == {SeedAdmins[1], SeedAdmins[2], UserEmail}
ReqEmails == {SeedAdmins[2], UserEmail}
Passwords == {SeedPassword, "pw2"}
Codes == {"1111", "2222"}
FcmTokens == {"", "fcm1"}
Reqs == {"r1", "r2"}

\* the inputs requests are drawn from: emails addresses the accounts named in
\* request bodies, tokens the accounts whose tokens are presented
UserIn == [emails |-> {UserEmail}, tokens |-> {UserEmail}, passwords |-> Passwords,
           codes |-> Codes, fcms |-> FcmTokens]

AdminIn == [emails |-> {SeedAdmins[2]}, tokens |-> {SeedAdmins[2]},
            passwords |-> Passwords, codes |-> Codes, fcms |-> FcmTokens]

\* overlapping requests on a registered user and a seeded admin
PairIn == [emails |-> {UserEmail, SeedAdmins[2]}, tokens |-> {UserEmail, SeedAdmins[2]},
           passwords |-> {SeedPassword}, codes |-> {"1111"}, fcms |-> {""}]

\* query-string values as character sequences: missing, non-numeric, zero,
\* numerals, and a numeral followed by other characters
Queries == {<<>>, <<"x">>, <<"0">>, <<"1">>, <<"2">>, <<"3">>, <<"1", "0">>,
            <<"2", "x">>}

VARIABLES users, otps, now, issued, reqs, ev, seedPc

vars == <<users, otps, now, issued, reqs, ev, seedPc>>

\* ------------------------------------------------------- pure collaborators
\* argon2 / hashPassword: a hash is tagged by the primitive and verifies only
\* the plaintext it was derived from.
Hash(p) == <<"argon2", p>>

Verify(h, p) == h = Hash(p)

NoUser == [exists |-> FALSE, isVerified |-> FALSE, isDeleted |-> FALSE,
           role |-> "", password |-> <<>>, fcmToken |-> ""]

NoOtp == [exists |-> FALSE, otp |-> "", expiresAt |-> 0]

NoToken == [email |-> "", role |-> "", valid |-> FALSE]

\* generateRegisterToken({ email }): a signed token that carries no role
RegisterToken(e) == [email |-> e, role |-> "", valid |-> TRUE]

\* generateToken({ id, email, role }): the id of a user is one-to-one with the
\* email, so the email stands for both
SessionToken(e, role) == [email |-> e, role |-> role, valid |-> TRUE]

\* tokens a client can present: one minted earlier, or something that does
\* not verify (garbage, expired, tampered)
Presentable(in) == {t \in issued : t.email \in in.tokens} \cup {NoToken}

\* ------------------------------------------------------- observable events
NoPage == [totalPage |-> 0, currentPage |-> 0, prevPage |-> 0, nextPage |-> 0,
           limit |-> 0, totalItem |-> 0]

NoResp == [status |-> 0, success |-> FALSE, message |-> "", fields |-> {},
           token |-> NoToken, user |-> {}, pagination |-> NoPage]

\* req.query.page and req.query.limit
NoQuery == [page |-> <<>>, limit |-> <<>>]

NoErr == [status |-> 0, message |-> <<>>]

NoMail == [to |-> "", otp |-> "", kind |-> ""]

\* what the last step showed to the outside: the request it belongs to, the
\* code or password the request submitted, the response or error it produced,
\* the e-mail it dispatched and whether it wrote an error to the console; tok
\* is the token the request presented, where the handler reads one itself
NoEv == [op |-> "", req |-> "", email |-> "", code |-> "", password |-> "",
         newPassword |-> "", tok |-> NoToken, query |-> NoQuery, resp |-> NoResp, err |-> NoErr, afterResp |-> FALSE, mail |-> NoMail,
         log |-> FALSE]

\* sendResponse(res, { statusCode, success, message, data })
Response(status, success, message, fields, token, user) ==
    [status |-> status, success |-> success, message |-> message,
     fields |-> fields, token |-> token, user |-> user, pagination |-> NoPage]

\* ------------------------------------------------------- request slots
Idle == [op |-> "", pc |-> "idle", email |-> "", password |-> "", otp |-> "",
         fcm |-> "", snap |-> NoUser, query |-> NoQuery]

\* a new request takes the lowest free slot
Free(r) == /\ reqs[r].pc = "idle"
           /\ (r = "r2" => reqs["r1"].pc # "idle")

\* the position of the start-up routine seedSuperAdmin in its loop
SeedIdle == [pc |-> "idle", i |-> 0]

\* const admin / admin2 after seedSuperAdmin has created them
SeededAdmin == [exists |-> TRUE, isVerified |-> FALSE, isDeleted |-> FALSE,
                role |-> "admin", password |-> Hash(SeedPassword), fcmToken |-> ""]

\* the service after start-up: the seed admins exist, nothing else does
Init ==
    /\ users = [e \in Emails |->
                  IF e \in {SeedAdmins[1], SeedAdmins[2]} THEN SeededAdmin ELSE NoUser]
    /\ otps = [e \in Emails |-> NoOtp]
    /\ now = 0
    /\ issued = {}
    /\ reqs = [r \in Reqs |-> Idle]
    /\ ev = NoEv
    /\ seedPc = SeedIdle

\* ------------------------------------------------------- wall clock
Tick ==
    /\ now + TickMs <= MaxNow
    /\ now' = now + TickMs
    /\ ev' = NoEv
    /\ UNCHANGED <<users, otps, issued, reqs, seedPc>>

\* ------------------------------------------------------- shared helpers
EvOf(op, r, email) == [NoEv EXCEPT !.op = op, !.req = r, !.email = email]

\* catchAsync: a rejection of the handler is forwarded to the error-response
\* path; afterResp tells whether sendResponse had already run in the request
Thrown(op, r, email, status, message, afterResp) ==
    [EvOf(op, r, email) EXCEPT !.err = [status |-> status, message |-> message],
                               !.afterResp = afterResp]

\* the error is caught in the handler and only written to the console
Logged(op, r, email) == [EvOf(op, r, email) EXCEPT !.log = TRUE]

Mail(kind, to, otp) == [to |-> to, otp |-> otp, kind |-> kind]

\* the cooldown comparison turned around
CooldownActiveFlipped(rec, t) == rec.exists /\ rec.expiresAt < t

\* otpRecord && otpRecord.expiresAt > now
CooldownActive(rec, t) == rec.exists /\ rec.expiresAt > t

\* the remaining time rounded up to whole seconds
RemainingTimeCeil(rec, t) == (rec.expiresAt - t + 999) \div 1000

\* Math.floor((otpRecord.expiresAt.getTime() - now.getTime()) / 1000)
RemainingTime(rec, t) == (rec.expiresAt - t) \div 1000

CooldownMessage(rec, t) ==
    <<"You can't request another OTP before", RemainingTime(rec, t), "seconds.">>

\* saveOTP(email, otp): upsert of the one OTP record of the email
SavedOtp(otp, t) == [exists |-> TRUE, otp |-> otp, expiresAt |-> t + OtpTtlMs]

saveOTP(email, otp) == otps' = [otps EXCEPT ![email] = SavedOtp(otp, now)]

Start(r, op, pc, email, password, otp, fcm, snap) ==
    reqs' = [reqs EXCEPT ![r] = [op |-> op, pc |-> pc, email |-> email,
                                 password |-> password, otp |-> otp, fcm |-> fcm,
                                 snap |-> snap, query |-> NoQuery]]

Goto(r, pc) == reqs' = [reqs EXCEPT ![r].pc = pc]

Finish(r) == reqs' = [reqs EXCEPT ![r] = Idle]

At(r, op, pc) == reqs[r].op = op /\ reqs[r].pc = pc

\* ------------------------------------------------------- registerUser
\* the response echoing the generated code
RegisterResponseWithOtp(email) ==
    Response(200, TRUE,
             "OTP sent to your email. Please verify to continue registration.",
             {"token", "otp"}, RegisterToken(email), {})

RegisterResponse(email) ==
    Response(200, TRUE,
             "OTP sent to your email. Please verify to continue registration.",
             {"token"}, RegisterToken(email), {})

\* registerUserService, generateRegisterToken and the immediate response
RegisterUser(r, in) ==
    /\ Free(r)
    /\ \E email \in in.emails, password \in in.passwords, fcm \in in.fcms,
          otp \in in.codes :
          /\ Start(r, "registerUser", "reg_email", email, password, otp, fcm, NoUser)
          /\ ev' = [EvOf("registerUser", r, email) EXCEPT
                        !.resp = RegisterResponse(email)]
          /\ issued' = issued \cup {RegisterResponse(email).token}
    /\ UNCHANGED <<users, otps, now, seedPc>>

\* the background phase going on after a failed dispatch
RegisterSendEmailGoesOn(r) ==
    /\ At(r, "registerUser", "reg_email")
    /\ \E ok \in BOOLEAN :
          /\ Goto(r, "reg_create")
          /\ ev' = IF ok
                   THEN [EvOf("registerUser", r, reqs[r].email) EXCEPT
                            !.mail = Mail("register", reqs[r].email, reqs[r].otp)]
                   ELSE Logged("registerUser", r, reqs[r].email)
    /\ UNCHANGED <<users, otps, now, issued, seedPc>>

\* background: await sendOTPEmailRegister(name, email, otp)
RegisterSendEmail(r) ==
    /\ At(r, "registerUser", "reg_email")
    /\ \E ok \in BOOLEAN :
          IF ok
          THEN /\ Goto(r, "reg_create")
               /\ ev' = [EvOf("registerUser", r, reqs[r].email) EXCEPT
                            !.mail = Mail("register", reqs[r].email, reqs[r].otp)]
          ELSE /\ Finish(r)
               /\ ev' = Logged("registerUser", r, reqs[r].email)
    /\ UNCHANGED <<users, otps, now, issued, seedPc>>

\* createUser({ name, email, image, hashedPassword, fcmToken })
CreatedUser(hashedPassword, fcm) ==
    [exists |-> TRUE, isVerified |-> FALSE, isDeleted |-> FALSE, role |-> "user",
     password |-> hashedPassword, fcmToken |-> fcm]

\* the create replacing a record that exists under the email
RegisterCreateUserUpserts(r) ==
    /\ At(r, "registerUser", "reg_create")
    /\ users' = [users EXCEPT
                    ![reqs[r].email] = CreatedUser(Hash(reqs[r].password), reqs[r].fcm)]
    /\ reqs' = [reqs EXCEPT ![r].pc = "reg_otp", ![r].password = ""]
    /\ ev' = EvOf("registerUser", r, reqs[r].email)
    /\ UNCHANGED <<otps, now, issued, seedPc>>

\* background: hashPassword, createUser; a duplicate email is rejected by the
\* unique index and ends the background phase in its catch block
RegisterCreateUser(r) ==
    /\ At(r, "registerUser", "reg_create")
    /\ LET email == reqs[r].email IN
       IF users[email].exists
       THEN /\ Finish(r)
            /\ ev' = Logged("registerUser", r, email)
            /\ UNCHANGED users
       ELSE /\ users' = [users EXCEPT
                            ![email] = CreatedUser(Hash(reqs[r].password), reqs[r].fcm)]
            /\ reqs' = [reqs EXCEPT ![r].pc = "reg_otp", ![r].password = ""]
            /\ ev' = EvOf("registerUser", r, email)
    /\ UNCHANGED <<otps, now, issued, seedPc>>

\* { otp, expiresAt } with expiresAt = now + 60 * 1000
RegisterOtpRecord(otp, t) ==
    [exists |-> TRUE, otp |-> otp, expiresAt |-> t + OtpTtlMs]

\* background: Promise.all([OTPModel.findOneAndUpdate(...), saveOTP(email, otp)])
RegisterSaveOtp(r) ==
    /\ At(r, "registerUser", "reg_otp")
    /\ otps' = [otps EXCEPT ![reqs[r].email] = RegisterOtpRecord(reqs[r].otp, now)]
    /\ reqs' = [reqs EXCEPT ![r].pc = "reg_notify", ![r].otp = ""]
    /\ ev' = EvOf("registerUser", r, reqs[r].email)
    /\ UNCHANGED <<users, now, issued, seedPc>>

\* background: emitNotification and the optional push notification
RegisterNotify(r) ==
    /\ At(r, "registerUser", "reg_notify")
    /\ \E ok \in BOOLEAN :
          ev' = IF ok THEN EvOf("registerUser", r, reqs[r].email)
                      ELSE Logged("registerUser", r, reqs[r].email)
    /\ Finish(r)
    /\ UNCHANGED <<users, otps, now, issued, seedPc>>

\* ------------------------------------------------------- resendOTP
ResendOTP(r, in) ==
    /\ Free(r)
    /\ \E tok \in Presentable(in), otp \in in.codes, mailOk \in BOOLEAN :
          LET email == tok.email IN
          IF ~tok.valid
          THEN /\ ev' = Thrown("resendOTP", r, "", 401, <<"Invalid token">>, FALSE)
               /\ UNCHANGED reqs
          ELSE IF CooldownActive(otps[email], now)
          THEN /\ ev' = Thrown("resendOTP", r, email, 403,
                               CooldownMessage(otps[email], now), FALSE)
               /\ UNCHANGED reqs
          ELSE /\ Start(r, "resendOTP", "resend_save", email, "", otp, "", NoUser)
               /\ ev' = [EvOf("resendOTP", r, email) EXCEPT
                            !.resp = Response(200, TRUE,
                                       "A new OTP has been sent to your email.",
                                       {}, NoToken, {}),
                            !.mail = Mail("resend", email, otp),
                            !.log = ~mailOk]
    /\ UNCHANGED <<users, otps, now, issued, seedPc>>

\* the write skipped when an unexpired record is found at the time of writing
ResendSaveOtpGuarded(r) ==
    /\ At(r, "resendOTP", "resend_save")
    /\ IF CooldownActive(otps[reqs[r].email], now)
       THEN UNCHANGED otps
       ELSE saveOTP(reqs[r].email, reqs[r].otp)
    /\ Finish(r)
    /\ ev' = EvOf("resendOTP", r, reqs[r].email)
    /\ UNCHANGED <<users, now, issued, seedPc>>

\* await saveOTP(email, otp)
ResendSaveOtp(r) ==
    /\ At(r, "resendOTP", "resend_save")
    /\ saveOTP(reqs[r].email, reqs[r].otp)
    /\ Finish(r)
    /\ ev' = EvOf("resendOTP", r, reqs[r].email)
    /\ UNCHANGED <<users, now, issued, seedPc>>

\* ------------------------------------------------------- loginUser
\* validateUserLockStatus(user) passes when the account is not locked
LoginToken(email, user) == SessionToken(email, user.role)

UnverifiedLoginResponse(email, user) ==
    Response(401, FALSE, "We've sent an OTP to your email to verify your profile.",
             {"role", "token"}, LoginToken(email, user), {})

LoginResponse(email, user) ==
    Response(200, TRUE, "Login complete!", {"user", "token"}, LoginToken(email, user),
             {"_id", "name", "email", "image", "role", "profile_status"})

\* the password checked before the verification flag
LoginOutcomePasswordFirst(user, password) ==
    IF ~Verify(user.password, password) THEN "wrong password"
    ELSE IF ~user.isVerified THEN "unverified"
    ELSE "complete"

\* the password check left out
LoginOutcomeNoPassword(user, password) ==
    IF ~user.isVerified THEN "unverified" ELSE "complete"

\* if (!user.isVerified) { ... } before argon2.verify(user.password, password)
LoginOutcome(user, password) ==
    IF ~user.isVerified THEN "unverified"
    ELSE IF ~Verify(user.password, password) THEN "wrong password"
    ELSE "complete"

\* findUserByEmail and the two 404 checks
LoginUser(r, in) ==
    /\ Free(r)
    /\ \E email \in in.emails, password \in in.passwords \cup {""}, fcm \in in.fcms :
          LET user == users[email] IN
          IF ~user.exists
          THEN /\ ev' = Thrown("loginUser", r, email, 404,
                               <<"This account does not exist.">>, FALSE)
               /\ UNCHANGED reqs
          ELSE IF user.isDeleted
          THEN /\ ev' = Thrown("loginUser", r, email, 404,
                               <<"your account is deleted.">>, FALSE)
               /\ UNCHANGED reqs
          ELSE /\ Start(r, "loginUser", "login_lock", email, password, "", fcm, user)
               /\ ev' = NoEv
    /\ UNCHANGED <<users, otps, now, issued, seedPc>>

\* validateUserLockStatus, generateToken, then the unverified branch or the
\* password check on the user document that was loaded
LoginCheck(r, in) ==
    /\ At(r, "loginUser", "login_lock")
    /\ \E locked \in BOOLEAN, otp \in in.codes, mailOk \in BOOLEAN :
          LET email == reqs[r].email
              user == reqs[r].snap
          IN
          IF locked
          THEN /\ ev' = [Thrown("loginUser", r, email, 403, <<"locked">>, FALSE)
                            EXCEPT !.password = reqs[r].password]
               /\ Finish(r)
               /\ UNCHANGED issued
          ELSE IF LoginOutcome(user, reqs[r].password) = "unverified"
          THEN /\ ev' = [EvOf("loginUser", r, email) EXCEPT
                            !.password = reqs[r].password,
                            !.resp = UnverifiedLoginResponse(email, user),
                            !.mail = Mail("verification", email, otp),
                            !.log = ~mailOk]
               /\ reqs' = [reqs EXCEPT ![r] = [Idle EXCEPT !.op = "loginUser",
                               !.pc = "login_save_otp", !.email = email, !.otp = otp]]
               /\ issued' = issued \cup {LoginToken(email, user)}
          ELSE IF LoginOutcome(user, reqs[r].password) = "wrong password"
          THEN /\ ev' = [Thrown("loginUser", r, email, 401, <<"Wrong password!">>,
                                FALSE) EXCEPT !.password = reqs[r].password]
               /\ Finish(r)
               /\ UNCHANGED issued
          ELSE /\ ev' = [EvOf("loginUser", r, email) EXCEPT
                            !.password = reqs[r].password,
                            !.resp = LoginResponse(email, user)]
               /\ reqs' = [reqs EXCEPT ![r] = [Idle EXCEPT !.op = "loginUser",
                               !.pc = "login_save_fcm", !.email = email,
                               !.fcm = reqs[r].fcm]]
               /\ issued' = issued \cup {LoginToken(email, user)}
    /\ UNCHANGED <<users, otps, now, seedPc>>

\* return await saveOTP(email, otp)
LoginSaveOtp(r) ==
    /\ At(r, "loginUser", "login_save_otp")
    /\ saveOTP(reqs[r].email, reqs[r].otp)
    /\ Finish(r)
    /\ ev' = EvOf("loginUser", r, reqs[r].email)
    /\ UNCHANGED <<users, now, issued, seedPc>>

\* user.fcmToken = fcmToken; await user.save()
LoginSaveFcm(r) ==
    /\ At(r, "loginUser", "login_save_fcm")
    /\ users' = [users EXCEPT ![reqs[r].email].fcmToken = reqs[r].fcm]
    /\ Finish(r)
    /\ ev' = EvOf("loginUser", r, reqs[r].email)
    /\ UNCHANGED <<otps, now, issued, seedPc>>

\* ------------------------------------------------------- adminloginUser
AdminLoginResponse(email, user) ==
    Response(200, TRUE, "Login complete!", {"user", "token"},
             SessionToken(email, user.role), {"id", "name", "email", "role", "image"})

AdminLoginUser(r, in) ==
    /\ Free(r)
    /\ \E email \in in.emails, password \in in.passwords \cup {""} :
          LET user == users[email] IN
          IF ~user.exists
          THEN /\ ev' = Thrown("adminloginUser", r, email, 404,
                               <<"This account does not exist.">>, FALSE)
               /\ UNCHANGED issued
          ELSE IF user.role # "admin"
          THEN /\ ev' = Thrown("adminloginUser", r, email, 403,
                               <<"Only admins can login.">>, FALSE)
               /\ UNCHANGED issued
          ELSE IF ~Verify(user.password, password)
          THEN /\ ev' = Thrown("adminloginUser", r, email, 401,
                               <<"Wrong password!">>, FALSE)
               /\ UNCHANGED issued
          ELSE /\ ev' = [EvOf("adminloginUser", r, email) EXCEPT
                            !.resp = AdminLoginResponse(email, user)]
               /\ issued' = issued \cup {AdminLoginResponse(email, user).token}
    /\ UNCHANGED <<users, otps, now, reqs, seedPc>>

\* ------------------------------------------------------- forgotPassword
ForgotResponse(email) ==
    Response(200, TRUE, "OTP sent to your email. Please check!", {"token"},
             RegisterToken(email), {})

\* email check, findUserByEmail, cooldown check, token and response
ForgotPassword(r, in) ==
    /\ Free(r)
    /\ \E email \in in.emails \cup {""}, otp \in in.codes :
          IF email = ""
          THEN /\ ev' = Thrown("forgotPassword", r, email, 400,
                               <<"Please provide an email.">>, FALSE)
               /\ UNCHANGED <<reqs, issued>>
          ELSE IF ~users[email].exists
          THEN /\ ev' = Thrown("forgotPassword", r, email, 404,
                               <<"This account does not exist.">>, FALSE)
               /\ UNCHANGED <<reqs, issued>>
          ELSE IF CooldownActive(otps[email], now)
          THEN /\ ev' = Thrown("forgotPassword", r, email, 403,
                               CooldownMessage(otps[email], now), FALSE)
               /\ UNCHANGED <<reqs, issued>>
          ELSE /\ Start(r, "forgotPassword", "forgot_email", email, "", otp, "", NoUser)
               /\ ev' = [EvOf("forgotPassword", r, email) EXCEPT
                            !.resp = ForgotResponse(email)]
               /\ issued' = issued \cup {ForgotResponse(email).token}
    /\ UNCHANGED <<users, otps, now, seedPc>>

\* await sendResetOTPEmail(email, otp, user.name): a rejection leaves the handler
ForgotSendEmail(r) ==
    /\ At(r, "forgotPassword", "forgot_email")
    /\ \E ok \in BOOLEAN :
          IF ok
          THEN /\ Goto(r, "forgot_save")
               /\ ev' = [EvOf("forgotPassword", r, reqs[r].email) EXCEPT
                            !.mail = Mail("reset", reqs[r].email, reqs[r].otp)]
          ELSE /\ Finish(r)
               /\ ev' = Thrown("forgotPassword", r, reqs[r].email, 500,
                               <<"email not sent">>, TRUE)
    /\ UNCHANGED <<users, otps, now, issued, seedPc>>

\* await saveOTP(email, otp)
ForgotSaveOtp(r) ==
    /\ At(r, "forgotPassword", "forgot_save")
    /\ saveOTP(reqs[r].email, reqs[r].otp)
    /\ Finish(r)
    /\ ev' = EvOf("forgotPassword", r, reqs[r].email)
    /\ UNCHANGED <<users, now, issued, seedPc>>

\* ------------------------------------------------------- resetPassword
\* the handler without the role check
ResetPasswordAnyToken(r, in) ==
    /\ Free(r)
    /\ \E tok \in Presentable(in), password \in in.passwords \cup {""} :
          IF ~tok.valid
          THEN /\ ev' = [Thrown("resetPassword", r, "", 401, <<"Invalid token">>, FALSE)
                            EXCEPT !.tok = tok]
               /\ UNCHANGED reqs
          ELSE IF password = ""
          THEN /\ ev' = [Thrown("resetPassword", r, tok.email, 400,
                                <<"Please provide  password ">>, FALSE)
                            EXCEPT !.tok = tok]
               /\ UNCHANGED reqs
          ELSE /\ Start(r, "resetPassword", "reset_save", tok.email, password, "", "",
                        NoUser)
               /\ ev' = [EvOf("resetPassword", r, tok.email) EXCEPT
                            !.tok = tok, !.password = password,
                            !.resp = Response(200, TRUE, "Password reset successfully.",
                                              {}, NoToken, {})]
    /\ UNCHANGED <<users, otps, now, issued, seedPc>>

\* verifyToken, the role check, the password check and the immediate response
ResetPassword(r, in) ==
    /\ Free(r)
    /\ \E tok \in Presentable(in), password \in in.passwords \cup {""} :
          IF ~tok.valid
          THEN /\ ev' = [Thrown("resetPassword", r, "", 401, <<"Invalid token">>, FALSE)
                            EXCEPT !.tok = tok]
               /\ UNCHANGED reqs
          ELSE IF tok.role = ""
          THEN /\ ev' = [Thrown("resetPassword", r, tok.email, 401,
                                <<"Invalid token. Please try again.">>, FALSE)
                            EXCEPT !.tok = tok]
               /\ UNCHANGED reqs
          ELSE IF password = ""
          THEN /\ ev' = [Thrown("resetPassword", r, tok.email, 400,
                                <<"Please provide  password ">>, FALSE)
                            EXCEPT !.tok = tok]
               /\ UNCHANGED reqs
          ELSE /\ Start(r, "resetPassword", "reset_save", tok.email, password, "", "",
                        NoUser)
               /\ ev' = [EvOf("resetPassword", r, tok.email) EXCEPT
                            !.tok = tok, !.password = password,
                            !.resp = Response(200, TRUE, "Password reset successfully.",
                                              {}, NoToken, {})]
    /\ UNCHANGED <<users, otps, now, issued, seedPc>>

\* the reset also marking the account verified
ResetSaveVerifies(r) ==
    /\ At(r, "resetPassword", "reset_save")
    /\ LET email == reqs[r].email IN
       /\ users[email].exists
       /\ users' = [users EXCEPT ![email].password = Hash(reqs[r].password),
                                 ![email].isVerified = TRUE]
       /\ ev' = EvOf("resetPassword", r, email)
    /\ Finish(r)
    /\ UNCHANGED <<otps, now, issued, seedPc>>

\* the background phase ending without the save
ResetSaveKeepsHash(r) ==
    /\ At(r, "resetPassword", "reset_save")
    /\ ev' = EvOf("resetPassword", r, reqs[r].email)
    /\ Finish(r)
    /\ UNCHANGED <<users, otps, now, issued, seedPc>>

\* findUserByEmail, hashPassword, user.password = newPassword, user.save()
ResetSave(r) ==
    /\ At(r, "resetPassword", "reset_save")
    /\ LET email == reqs[r].email IN
       IF ~users[email].exists
       THEN /\ ev' = Thrown("resetPassword", r, email, 404,
                            <<"User not found. Are you attempting something sneaky?">>,
                            TRUE)
            /\ UNCHANGED users
       ELSE /\ users' = [users EXCEPT ![email].password = Hash(reqs[r].password)]
            /\ ev' = EvOf("resetPassword", r, email)
    /\ Finish(r)
    /\ UNCHANGED <<otps, now, issued, seedPc>>

\* ------------------------------------------------------- verifyOTP
\* the stored record matches a submitted code
OtpMatches(rec, code, t) == rec.exists /\ rec.otp = code /\ t < rec.expiresAt

\* verifyOTPService(otp, authorization): the token must verify and the record
\* of the token's email must match
verifyOTPService(code, tok) ==
    tok.valid /\ OtpMatches(otps[tok.email], code, now)

\* the token verifyOTPService returns: id/email/role of the user when there is one
VerifiedToken(email) ==
    IF users[email].exists THEN SessionToken(email, users[email].role)
                           ELSE RegisterToken(email)

VerifyResponse(email) ==
    Response(201, TRUE, "OTP Verified successfully.",
             {"name", "email", "phone", "token"}, VerifiedToken(email), {})

\* the success response sent without waiting for verifyOTPService
VerifyOTPRespondsFirst(r, in) ==
    /\ Free(r)
    /\ \E code \in in.codes, tok \in Presentable(in) :
          /\ tok.valid
          /\ Start(r, "verifyOTP", "verify_mark", tok.email, "", code, "", NoUser)
          /\ ev' = [EvOf("verifyOTP", r, tok.email) EXCEPT
                       !.resp = VerifyResponse(tok.email), !.code = code]
          /\ issued' = issued \cup {VerifyResponse(tok.email).token}
    /\ UNCHANGED <<users, otps, now, seedPc>>

VerifyOTP(r, in) ==
    /\ Free(r)
    /\ \E code \in in.codes, tok \in Presentable(in) :
          IF verifyOTPService(code, tok)
          THEN /\ Start(r, "verifyOTP", "verify_mark", tok.email, "", code, "", NoUser)
               /\ ev' = [EvOf("verifyOTP", r, tok.email) EXCEPT
                            !.resp = VerifyResponse(tok.email), !.code = code]
               /\ issued' = issued \cup {VerifyResponse(tok.email).token}
          ELSE /\ ev' = [Thrown("verifyOTP", r, tok.email, 500,
                                <<"Failed to verify otp">>, FALSE)
                            EXCEPT !.code = code]
               /\ UNCHANGED <<reqs, issued>>
    /\ UNCHANGED <<users, otps, now, seedPc>>

\* UserModel.findOne({ email }); if (!user.isVerified) { ...; user.save() }
\* with no user the property read throws inside the try block
VerifyMark(r) ==
    /\ At(r, "verifyOTP", "verify_mark")
    /\ LET email == reqs[r].email IN
       IF ~users[email].exists
       THEN /\ ev' = Thrown("verifyOTP", r, email, 500,
                            <<"Cannot read properties of null">>, TRUE)
            /\ UNCHANGED users
       ELSE /\ users' = [users EXCEPT ![email].isVerified = TRUE]
            /\ ev' = EvOf("verifyOTP", r, email)
    /\ Finish(r)
    /\ UNCHANGED <<otps, now, issued, seedPc>>

\* ------------------------------------------------------- changePassword
\* req.user comes from the authentication middleware: a session token
Authenticated(in) == {t \in Presentable(in) : t.valid /\ t.role # ""}

\* the handler without the check of the old password
ChangePasswordNoVerify(r, in) ==
    /\ Free(r)
    /\ \E tok \in Authenticated(in), oldPassword \in in.passwords \cup {""},
          newPassword \in in.passwords \cup {""} :
          LET email == tok.email IN
          IF oldPassword = "" \/ newPassword = ""
          THEN /\ ev' = [Thrown("changePassword", r, email, 500,
                          <<"Please provide both old password and new password.">>,
                          FALSE)
                            EXCEPT !.password = oldPassword,
                                   !.newPassword = newPassword, !.tok = tok]
               /\ UNCHANGED reqs
          ELSE IF ~users[email].exists
          THEN /\ ev' = [Thrown("changePassword", r, email, 500, <<"User not found.">>,
                                FALSE)
                            EXCEPT !.password = oldPassword,
                                   !.newPassword = newPassword, !.tok = tok]
               /\ UNCHANGED reqs
          ELSE /\ Start(r, "changePassword", "cp_save", email, newPassword, "", "",
                        NoUser)
               /\ ev' = [EvOf("changePassword", r, email) EXCEPT
                            !.password = oldPassword, !.newPassword = newPassword,
                            !.tok = tok]
    /\ UNCHANGED <<users, otps, now, issued, seedPc>>

\* findUserByEmail and argon2.verify(user.password, oldPassword)
ChangePassword(r, in) ==
    /\ Free(r)
    /\ \E tok \in Authenticated(in), oldPassword \in in.passwords \cup {""},
          newPassword \in in.passwords \cup {""} :
          LET email == tok.email IN
          IF oldPassword = "" \/ newPassword = ""
          THEN /\ ev' = [Thrown("changePassword", r, email, 500,
                          <<"Please provide both old password and new password.">>,
                          FALSE)
                            EXCEPT !.password = oldPassword,
                                   !.newPassword = newPassword, !.tok = tok]
               /\ UNCHANGED reqs
          ELSE IF ~users[email].exists
          THEN /\ ev' = [Thrown("changePassword", r, email, 500, <<"User not found.">>,
                                FALSE)
                            EXCEPT !.password = oldPassword,
                                   !.newPassword = newPassword, !.tok = tok]
               /\ UNCHANGED reqs
          ELSE IF ~Verify(users[email].password, oldPassword)
          THEN /\ ev' = [Thrown("changePassword", r, email, 401,
                                <<"Old password is incorrect.">>, FALSE)
                            EXCEPT !.password = oldPassword,
                                   !.newPassword = newPassword, !.tok = tok]
               /\ UNCHANGED reqs
          ELSE /\ Start(r, "changePassword", "cp_save", email, newPassword, "", "",
                        NoUser)
               /\ ev' = [EvOf("changePassword", r, email) EXCEPT
                            !.password = oldPassword, !.newPassword = newPassword,
                            !.tok = tok]
    /\ UNCHANGED <<users, otps, now, issued, seedPc>>

\* argon2.hash(newPassword), user.save(), then the response
ChangePasswordSave(r) ==
    /\ At(r, "changePassword", "cp_save")
    /\ users' = [users EXCEPT ![reqs[r].email].password = Hash(reqs[r].password)]
    /\ ev' = [EvOf("changePassword", r, reqs[r].email) EXCEPT
                 !.newPassword = reqs[r].password,
                 !.resp = Response(200, TRUE,
                            "You have successfully changed your password.",
                            {}, NoToken, {})]
    /\ Finish(r)
    /\ UNCHANGED <<otps, now, issued, seedPc>>

\* ------------------------------------------------------- deleteUser
\* the caller check by role alone
MayNotDeleteRoleOnly(tok, id) == tok.role # "admin"

\* req.user.id !== id || req.user.role !== "admin"
MayNotDelete(tok, id) == tok.email # id \/ tok.role # "admin"

\* the handler without the check of the isDeleted flag
DeleteUserAgain(r, in) ==
    /\ Free(r)
    /\ \E tok \in Authenticated(in), id \in in.emails \cup {""} :
          IF id = "" \/ ~users[id].exists
          THEN /\ ev' = [Thrown("deleteUser", r, id, 404, <<"User not found.">>, FALSE)
                            EXCEPT !.tok = tok]
               /\ UNCHANGED reqs
          ELSE IF MayNotDelete(tok, id)
          THEN /\ ev' = [Thrown("deleteUser", r, id, 403,
                          <<"You cannot delete this account. Please contact support">>,
                          FALSE)
                            EXCEPT !.tok = tok]
               /\ UNCHANGED reqs
          ELSE /\ Start(r, "deleteUser", "del_do", id, "", "", "", NoUser)
               /\ ev' = [EvOf("deleteUser", r, id) EXCEPT !.tok = tok]
    /\ UNCHANGED <<users, otps, now, issued, seedPc>>

\* findUserById and the three checks; the id "" names no user
DeleteUser(r, in) ==
    /\ Free(r)
    /\ \E tok \in Authenticated(in), id \in in.emails \cup {""} :
          IF id = "" \/ ~users[id].exists
          THEN /\ ev' = [Thrown("deleteUser", r, id, 404, <<"User not found.">>, FALSE)
                            EXCEPT !.tok = tok]
               /\ UNCHANGED reqs
          ELSE IF users[id].isDeleted
          THEN /\ ev' = [Thrown("deleteUser", r, id, 404,
                                <<"This account is already deleted.">>, FALSE)
                            EXCEPT !.tok = tok]
               /\ UNCHANGED reqs
          ELSE IF MayNotDelete(tok, id)
          THEN /\ ev' = [Thrown("deleteUser", r, id, 403,
                          <<"You cannot delete this account. Please contact support">>,
                          FALSE)
                            EXCEPT !.tok = tok]
               /\ UNCHANGED reqs
          ELSE /\ Start(r, "deleteUser", "del_do", id, "", "", "", NoUser)
               /\ ev' = [EvOf("deleteUser", r, id) EXCEPT !.tok = tok]
    /\ UNCHANGED <<users, otps, now, issued, seedPc>>

\* await userDelete(id, email), then the response
DeleteDo(r) ==
    /\ At(r, "deleteUser", "del_do")
    /\ users' = [users EXCEPT ![reqs[r].email].isDeleted = TRUE]
    /\ ev' = [EvOf("deleteUser", r, reqs[r].email) EXCEPT
                 !.resp = Response(200, TRUE, "Account deleted successfully",
                                   {}, NoToken, {})]
    /\ Finish(r)
    /\ UNCHANGED <<otps, now, issued, seedPc>>

\* ------------------------------------------------------- updateUser
\* updateData holds name, ageRange, address and image only; none of the
\* account fields is written
UpdateUser(r, in) ==
    /\ Free(r)
    /\ \E tok \in Authenticated(in) :
          IF ~users[tok.email].exists
          THEN ev' = Thrown("updateUser", r, tok.email, 404, <<"User not found.">>, FALSE)
          ELSE ev' = [EvOf("updateUser", r, tok.email) EXCEPT
                         !.resp = Response(200, TRUE, "Profile updated.",
                                    {"_id", "name", "email", "ageRange", "address",
                                     "image"}, NoToken, {})]
    /\ UNCHANGED <<users, otps, now, issued, reqs, seedPc>>

\* ------------------------------------------------------- getAllUsers
Digits == <<"0", "1", "2", "3", "4", "5", "6", "7", "8", "9">>

IsDigit(c) == \E i \in 1..Len(Digits) : Digits[i] = c

DigitOf(c) == (CHOOSE i \in 1..Len(Digits) : Digits[i] = c) - 1

\* the value of the longest prefix of digits, read in base Len(Digits)
RECURSIVE LeadingValue(_, _)
LeadingValue(q, acc) ==
    IF q = <<>> \/ ~IsDigit(Head(q)) THEN acc
    ELSE LeadingValue(Tail(q), acc * Len(Digits) + DigitOf(Head(q)))

\* parseInt(s): the number the string starts with, or NaN (no value) when it
\* is missing or starts with no digit
ParseInt(q) == IF q = <<>> \/ ~IsDigit(Head(q)) THEN {} ELSE {LeadingValue(q, 0)}

\* parseInt(..) || d: NaN and 0 are falsy
OrDefault(parsed, d) ==
    IF parsed = {} \/ parsed = {0} THEN d ELSE CHOOSE n \in parsed : TRUE

\* x ?? d
Coalesce(x, d) == IF x = {} THEN d ELSE CHOOSE n \in x : TRUE

\* page > 1 ? page - 1 : null
prevPage(page) == IF page > 1 THEN {page - 1} ELSE {}

\* the next page offered also on the last page
nextPageInclusive(page, totalPages) == IF page <= totalPages THEN {page + 1} ELSE {}

\* page < totalPages ? page + 1 : null
nextPage(page, totalPages) == IF page < totalPages THEN {page + 1} ELSE {}

\* getUserList: Math.ceil(totalUsers / limit)
TotalPages(totalUsers, limit) == (totalUsers + limit - 1) \div limit

\* getUserList: the number of users left after skipping, cut at the limit
PageLength(totalUsers, skip, limit) ==
    IF totalUsers <= skip THEN 0
    ELSE IF totalUsers - skip < limit THEN totalUsers - skip ELSE limit

Pagination(page, limit, totalUsers) ==
    [totalPage |-> TotalPages(totalUsers, limit),
     currentPage |-> page,
     prevPage |-> Coalesce(prevPage(page), 1),
     nextPage |-> Coalesce(nextPage(page, TotalPages(totalUsers, limit)), 1),
     limit |-> limit,
     totalItem |-> totalUsers]

\* verifyToken and findUserById(decoded.id); a token without an id finds no user
GetAllUsers(r, in) ==
    /\ Free(r)
    /\ \E tok \in Presentable(in), page \in in.queries, limit \in in.queries :
          LET query == [page |-> page, limit |-> limit] IN
          IF ~tok.valid
          THEN /\ ev' = [Thrown("getAllUsers", r, "", 401, <<"Invalid token">>, FALSE)
                            EXCEPT !.tok = tok, !.query = query]
               /\ UNCHANGED reqs
          ELSE IF tok.role = "" \/ ~users[tok.email].exists
          THEN /\ ev' = [Thrown("getAllUsers", r, tok.email, 404,
                                <<"This admin account does not exist.">>, FALSE)
                            EXCEPT !.tok = tok, !.query = query]
               /\ UNCHANGED reqs
          ELSE /\ reqs' = [reqs EXCEPT ![r] = [Idle EXCEPT !.op = "getAllUsers",
                               !.pc = "list", !.email = tok.email, !.query = query]]
               /\ ev' = [EvOf("getAllUsers", r, tok.email) EXCEPT
                            !.tok = tok, !.query = query]
    /\ UNCHANGED <<users, otps, now, issued, seedPc>>

\* page and limit, getUserList(skip, limit, ...) on a collection in which
\* totalUsers users match the filters, and the response
GetAllUsersList(r) ==
    /\ At(r, "getAllUsers", "list")
    /\ \E totalUsers \in 0..MaxUsers :
          LET page == OrDefault(ParseInt(reqs[r].query.page), 1)
              limit == OrDefault(ParseInt(reqs[r].query.limit), 10)
              skip == (page - 1) * limit
          IN
          IF PageLength(totalUsers, skip, limit) = 0
          THEN ev' = [EvOf("getAllUsers", r, reqs[r].email) EXCEPT
                         !.query = reqs[r].query,
                         !.resp = Response(204, TRUE,
                                    "No user found based on your search.", {}, NoToken,
                                    {})]
          ELSE ev' = [EvOf("getAllUsers", r, reqs[r].email) EXCEPT
                         !.query = reqs[r].query,
                         !.resp = [Response(200, TRUE,
                                     "User list retrieved successfully",
                                     {"data", "pagination"}, NoToken,
                                     {"_id", "image", "name", "email", "role", "phone",
                                      "address", "managerInfo", "createdAt"})
                                   EXCEPT !.pagination =
                                              Pagination(page, limit, totalUsers)]]
    /\ Finish(r)
    /\ UNCHANGED <<users, otps, now, issued, seedPc>>

\* ------------------------------------------------------- seedSuperAdmin
\* an empty database, before the start-up routine has run
InitEmpty ==
    /\ users = [e \in Emails |-> NoUser]
    /\ otps = [e \in Emails |-> NoOtp]
    /\ now = 0
    /\ issued = {}
    /\ reqs = [r \in Reqs |-> Idle]
    /\ ev = NoEv
    /\ seedPc = SeedIdle

\* for (const adminData of admins): the routine starts at the first admin
SeedStart ==
    /\ seedPc.pc = "idle"
    /\ seedPc' = [pc |-> "check", i |-> 1]
    /\ ev' = NoEv
    /\ UNCHANGED <<users, otps, now, issued, reqs>>

SeedAdvance(i) ==
    IF i < Len(SeedAdmins) THEN [pc |-> "check", i |-> i + 1] ELSE SeedIdle

\* the loop body going on to the create without the lookup
SeedCheckAlwaysCreates ==
    /\ seedPc.pc = "check"
    /\ seedPc' = [seedPc EXCEPT !.pc = "create"]
    /\ ev' = NoEv
    /\ UNCHANGED <<users, otps, now, issued, reqs>>

\* const isAdminExists = await UserModel.findOne({ email: adminData.email })
SeedCheck ==
    /\ seedPc.pc = "check"
    /\ IF users[SeedAdmins[seedPc.i]].exists
       THEN /\ seedPc' = SeedAdvance(seedPc.i)
            /\ ev' = [NoEv EXCEPT !.op = "seedSuperAdmin", !.email = SeedAdmins[seedPc.i],
                                  !.log = TRUE]
       ELSE /\ seedPc' = [seedPc EXCEPT !.pc = "create"]
            /\ ev' = NoEv
    /\ UNCHANGED <<users, otps, now, issued, reqs>>

\* hashPassword(adminData.password); UserModel.create(adminWithHashedPassword);
\* a record created meanwhile under the email makes the create fail and ends
\* the routine
SeedCreate ==
    /\ seedPc.pc = "create"
    /\ LET email == SeedAdmins[seedPc.i] IN
       IF users[email].exists
       THEN /\ seedPc' = SeedIdle
            /\ ev' = [NoEv EXCEPT !.op = "seedSuperAdmin", !.email = email,
                                  !.err = [status |-> 409, message |-> <<"duplicate">>]]
            /\ UNCHANGED users
       ELSE /\ users' = [users EXCEPT ![email] = SeededAdmin]
            /\ seedPc' = SeedAdvance(seedPc.i)
            /\ ev' = [NoEv EXCEPT !.op = "seedSuperAdmin", !.email = email,
                                  !.log = TRUE]
    /\ UNCHANGED <<otps, now, issued, reqs>>

\* ------------------------------------------------------- next-state relations
\* one request at a time on the user account
Next ==
    \/ Tick
    \/ RegisterUser("r1", UserIn)
    \/ RegisterSendEmail("r1")
    \/ RegisterCreateUser("r1")
    \/ RegisterSaveOtp("r1")
    \/ RegisterNotify("r1")
    \/ ResendOTP("r1", UserIn)
    \/ ResendSaveOtp("r1")
    \/ LoginUser("r1", UserIn)
    \/ LoginCheck("r1", UserIn)
    \/ LoginSaveOtp("r1")
    \/ LoginSaveFcm("r1")
    \/ AdminLoginUser("r1", UserIn)
    \/ ForgotPassword("r1", UserIn)
    \/ ForgotSendEmail("r1")
    \/ ForgotSaveOtp("r1")
    \/ ResetPassword("r1", UserIn)
    \/ ResetSave("r1")
    \/ VerifyOTP("r1", UserIn)
    \/ VerifyMark("r1")
    \/ ChangePassword("r1", UserIn)
    \/ ChangePasswordSave("r1")
    \/ DeleteUser("r1", UserIn)
    \/ UpdateUser("r1", UserIn)

Spec == Init /\ [][Next]_vars

\* one request at a time on a seeded admin account
NextAdmin ==
    \/ Tick
    \/ RegisterUser("r1", AdminIn)
    \/ RegisterSendEmail("r1")
    \/ RegisterCreateUser("r1")
    \/ ResendOTP("r1", AdminIn)
    \/ ResendSaveOtp("r1")
    \/ LoginUser("r1", AdminIn)
    \/ LoginCheck("r1", AdminIn)
    \/ LoginSaveOtp("r1")
    \/ LoginSaveFcm("r1")
    \/ AdminLoginUser("r1", AdminIn)
    \/ ForgotPassword("r1", AdminIn)
    \/ ForgotSendEmail("r1")
    \/ ForgotSaveOtp("r1")
    \/ ResetPassword("r1", AdminIn)
    \/ ResetSave("r1")
    \/ VerifyOTP("r1", AdminIn)
    \/ VerifyMark("r1")
    \/ ChangePassword("r1", AdminIn)
    \/ ChangePasswordSave("r1")
    \/ DeleteUser("r1", AdminIn)
    \/ DeleteDo("r1")
    \/ UpdateUser("r1", AdminIn)

SpecAdmin == Init /\ [][NextAdmin]_vars

\* the start-up routine on an empty database, next to registrations under a
\* seed email
NextSeed ==
    \/ SeedStart
    \/ SeedCheck
    \/ SeedCreate
    \/ RegisterUser("r1", AdminIn)
    \/ RegisterSendEmail("r1")
    \/ RegisterCreateUser("r1")
    \/ RegisterSaveOtp("r1")
    \/ RegisterNotify("r1")

SpecSeed == InitEmpty /\ [][NextSeed]_vars

\* the service with the seed admins and one registered, not yet verified user
InitAccounts ==
    /\ users = [e \in Emails |->
                  IF e = UserEmail THEN CreatedUser(Hash(SeedPassword), "")
                  ELSE SeededAdmin]
    /\ otps = [e \in Emails |-> NoOtp]
    /\ now = 0
    /\ issued = {}
    /\ reqs = [r \in Reqs |-> Idle]
    /\ ev = NoEv
    /\ seedPc = SeedIdle

\* two overlapping requests: logins of the two accounts and deletions
NextDelete ==
    \E r \in Reqs :
        \/ LoginUser(r, PairIn)
        \/ LoginCheck(r, PairIn)
        \/ LoginSaveOtp(r)
        \/ AdminLoginUser(r, PairIn)
        \/ DeleteUser(r, PairIn)
        \/ DeleteDo(r)

SpecDelete == InitAccounts /\ [][NextDelete]_vars

\* overlapping reissue requests for the email of the registered user
ReissueIn == [emails |-> {UserEmail}, tokens |-> {UserEmail},
              passwords |-> {SeedPassword}, codes |-> Codes, fcms |-> {""}]

\* two overlapping requests for a new code, with the clock
NextReissue ==
    \/ Tick
    \/ \E r \in Reqs :
          \/ ForgotPassword(r, ReissueIn)
          \/ ForgotSendEmail(r)
          \/ ForgotSaveOtp(r)
          \/ ResendOTP(r, ReissueIn)
          \/ ResendSaveOtp(r)

SpecReissue == InitAccounts /\ [][NextReissue]_vars

\* the admin's requests with the page and limit values of a listing
PageIn == [emails |-> {SeedAdmins[2]}, tokens |-> {SeedAdmins[2]},
           passwords |-> {SeedPassword}, codes |-> {"1111"}, fcms |-> {""},
           queries |-> Queries]

\* the admin dashboard: login and user listings
NextListing ==
    \/ AdminLoginUser("r1", PageIn)
    \/ GetAllUsers("r1", PageIn)
    \/ GetAllUsersList("r1")

SpecListing == Init /\ [][NextListing]_vars

\* ------------------------------------------------------- properties
\* the step is the first step of the request that produced the event ev'
StartsRequest(op) ==
    /\ ev'.op = op
    /\ ev'.req \in Reqs
    /\ reqs[ev'.req].pc = "idle"

\* C1: a verifyOTP call with a valid token for email e and code c answers with
\* the success response exactly when c is the code of the OTP record stored
\* for e and the current time is before that record's expiry; otherwise it
\* fails with an error and no success response.
C1_VerifyIffStoredCodeUnexpired ==
    (ev.op = "verifyOTP" /\ ev.code # "" /\ ev.email \in Emails) =>
        LET rec == otps[ev.email]
            matches == rec.exists /\ rec.otp = ev.code /\ now < rec.expiresAt
        IN /\ matches => ev.resp.status = 201 /\ ev.resp.success /\ ev.err = NoErr
           /\ ~matches => ev.resp = NoResp /\ ev.err.status = 500

C1_Witness ==
    /\ ev.op = "verifyOTP"
    /\ ev.resp.status = 201
    /\ otps[ev.email].otp = ev.code
    /\ now > 0

\* C2 (as claimed): resendOTP and forgotPassword on an email whose OTP record
\* is unexpired fail with the cooldown error 403, send no e-mail and leave the
\* OTP records unchanged.
C2_CooldownRejects ==
    [][\A e \in Emails :
          ( /\ StartsRequest("resendOTP") \/ StartsRequest("forgotPassword")
            /\ ev'.email = e
            /\ otps[e].exists /\ otps[e].expiresAt > now )
          => /\ ev'.err.status = 403
             /\ ev'.resp = NoResp
             /\ ev'.mail = NoMail
             /\ otps' = otps
             /\ reqs' = reqs]_vars

\* C2 (amended): the same, where for forgotPassword a user record for the
\* email exists; forgotPassword without a user record fails with 404, and
\* also then nothing is sent and the OTP records are unchanged.
C2_CooldownRejectsKnownUser ==
    [][\A e \in Emails :
          ( /\ StartsRequest("resendOTP") \/ StartsRequest("forgotPassword")
            /\ ev'.email = e
            /\ otps[e].exists /\ otps[e].expiresAt > now )
          => /\ ev'.err.status =
                  IF ev'.op = "forgotPassword" /\ ~users[e].exists THEN 404 ELSE 403
             /\ ev'.resp = NoResp
             /\ ev'.mail = NoMail
             /\ otps' = otps
             /\ reqs' = reqs]_vars

C2_Witness ==
    /\ ev.op \in {"resendOTP", "forgotPassword"}
    /\ ev.err.status = 403
    /\ otps[ev.email].expiresAt > now

\* C3: an OTP record is overwritten only when the email has no unexpired
\* record: no step replaces a record that is still unexpired.
C3_NoOverwriteWhileUnexpired ==
    [][\A e \in Emails :
          otps'[e] # otps[e] => ~(otps[e].exists /\ otps[e].expiresAt > now)]_vars

\* C4: no login operation answers with a success response or a token for a
\* user whose isDeleted flag is true.
C4_DeletedUserCannotLogin ==
    ( /\ ev.op \in {"loginUser", "adminloginUser"}
      /\ ev.resp # NoResp
      /\ ev.resp.success \/ ev.resp.token.valid )
    => ~users[ev.email].isDeleted

\* C5: isVerified of a user becomes true only in the post-response step of a
\* verifyOTP request for that user's email, and a request enters that step
\* only by answering with the success response for that email.
C5_VerifiedOnlyByVerifyOTP ==
    /\ [][\A e \in Emails :
            (users'[e].isVerified /\ ~users[e].isVerified) =>
                \E r \in Reqs : At(r, "verifyOTP", "verify_mark") /\ reqs[r].email = e]_vars
    /\ [][\A r \in Reqs :
            (reqs'[r].pc = "verify_mark" /\ reqs[r].pc # "verify_mark") =>
                /\ ev'.op = "verifyOTP"
                /\ ev'.resp.status = 201
                /\ ev'.email = reqs'[r].email]_vars

C5_Witness ==
    /\ users[UserEmail].isVerified
    /\ users[UserEmail].fcmToken = "fcm1"
    /\ users[UserEmail].password # Hash(SeedPassword)

\* C6: when a verifyOTP request that answered "OTP Verified successfully."
\* completes, the user record of the token's email is marked verified.
C6_VerifiedAfterSuccess ==
    ( /\ ev.op = "verifyOTP"
      /\ ev.resp = NoResp
      /\ ev.err = NoErr \/ ev.afterResp )
    => users[ev.email].exists /\ users[ev.email].isVerified

\* the step is the lock check and branch of a loginUser request whose account
\* is not locked
LoginDecides(r) ==
    /\ At(r, "loginUser", "login_lock")
    /\ reqs'[r] # reqs[r]
    /\ ev'.err.message # <<"locked">>

\* C7: loginUser on an existing, non-deleted, unlocked account whose loaded
\* record is unverified answers 401 with only role and token whatever the
\* password, never with an error, and then stores a fresh OTP for the email.
C7_UnverifiedLoginSkipsPassword ==
    /\ [][\A r \in Reqs :
            (LoginDecides(r) /\ ~reqs[r].snap.isVerified) =>
                /\ ev'.resp.status = 401
                /\ ev'.resp.fields = {"role", "token"}
                /\ ev'.resp.token = SessionToken(reqs[r].email, reqs[r].snap.role)
                /\ ev'.err = NoErr
                /\ ev'.mail.to = reqs[r].email
                /\ reqs'[r].pc = "login_save_otp"
                /\ reqs'[r].otp = ev'.mail.otp]_vars
    /\ [][\A r \in Reqs :
            (At(r, "loginUser", "login_save_otp") /\ reqs'[r] # reqs[r]) =>
                otps' = [otps EXCEPT ![reqs[r].email] =
                            [exists |-> TRUE, otp |-> reqs[r].otp,
                             expiresAt |-> now + OtpTtlMs]]]_vars

C7_Witness ==
    /\ ev.op = "loginUser"
    /\ ev.resp.status = 401
    /\ ev.password # ""
    /\ ~Verify(users[ev.email].password, ev.password)

\* C8: loginUser on a verified, non-deleted, unlocked account: a password that
\* verifies gives 200 with a token and a user projection without the password
\* hash, and the supplied push token is then written to the user record; any
\* other password gives the error 401, no response, and no write.
C8_VerifiedLoginChecksPassword ==
    /\ [][\A r \in Reqs :
            (LoginDecides(r) /\ reqs[r].snap.isVerified) =>
                IF reqs[r].snap.password = Hash(reqs[r].password)
                THEN /\ ev'.resp.status = 200
                     /\ ev'.resp.success
                     /\ ev'.resp.token = SessionToken(reqs[r].email, reqs[r].snap.role)
                     /\ "password" \notin ev'.resp.user
                     /\ "password" \notin ev'.resp.fields
                     /\ reqs'[r].pc = "login_save_fcm"
                     /\ reqs'[r].fcm = reqs[r].fcm
                ELSE /\ ev'.err.status = 401
                     /\ ev'.resp = NoResp
                     /\ reqs'[r] = Idle
                     /\ users' = users]_vars
    /\ [][\A r \in Reqs :
            (At(r, "loginUser", "login_save_fcm") /\ reqs'[r] # reqs[r]) =>
                users' = [users EXCEPT ![reqs[r].email].fcmToken = reqs[r].fcm]]_vars

C8_Witness ==
    /\ ev.op = "loginUser"
    /\ ev.resp.status = 200
    /\ reqs[ev.req].fcm = "fcm1"
    /\ users[ev.email].fcmToken = ""

\* C9: no error is forwarded to the error-response path after the response
\* of the request has been sent.
C9_NoErrorAfterResponse == ~(ev.err # NoErr /\ ev.afterResp)

\* C10: registerUser answers in its first step, before any user record is
\* created by the request; the response carries the token bound to the email
\* and nothing else, and no later step of the request answers the caller.
C10_RegisterResponse ==
    /\ [][\A r \in Reqs :
            (ev'.op = "registerUser" /\ ev'.req = r /\ ev' # ev) =>
                IF reqs[r].pc = "idle"
                THEN /\ ev'.resp.status = 200
                     /\ ev'.resp.fields = {"token"}
                     /\ ev'.resp.token = [email |-> ev'.email, role |-> "",
                                          valid |-> TRUE]
                     /\ ev'.mail = NoMail
                     /\ users' = users
                     /\ reqs'[r].pc = "reg_email"
                ELSE ev'.resp = NoResp /\ ev'.err = NoErr]_vars
    /\ [][\A e \in Emails :
            (users'[e].exists /\ ~users[e].exists) =>
                \E r \in Reqs : At(r, "registerUser", "reg_create")
                                /\ reqs[r].email = e]_vars

C10_Witness ==
    /\ ev.op = "registerUser"
    /\ ev.resp.status = 200
    /\ ~users[ev.email].exists
    /\ reqs[ev.req].password # "" /\ reqs[ev.req].otp # ""

\* C11: resetPassword goes on only with a token that verifies and carries a
\* role: with a token that does not verify, or a valid token without a role
\* (the email-only token of registerUser and forgotPassword), the request
\* ends in its first step with the error 401, sends no response, and changes
\* no user record; a response of resetPassword implies such a token.
C11_ResetNeedsRoleToken ==
    /\ [][(StartsRequest("resetPassword") /\ (~ev'.tok.valid \/ ev'.tok.role = "")) =>
            /\ ev'.err.status = 401
            /\ ev'.resp = NoResp
            /\ users' = users
            /\ reqs' = reqs]_vars
    /\ [][(ev'.op = "resetPassword" /\ ev'.resp # NoResp) =>
            ev'.tok.valid /\ ev'.tok.role # ""]_vars

C11_Witness ==
    /\ ev.op = "resetPassword"
    /\ ev.tok = RegisterToken(UserEmail)
    /\ ev.err.status = 401
    /\ users[UserEmail].exists
    /\ reqs[ev.req].pc = "idle"

\* C12: a resetPassword request reaches its persisting step only by answering
\* 200 "Password reset successfully." for the email of its token; when that
\* step completes, the stored hash of the user with that email verifies the
\* new password of the request, and nothing else in any user record changes.
C12_ResetPersistsAfterResponse ==
    /\ [][\A r \in Reqs :
            (reqs'[r].pc = "reset_save" /\ reqs[r].pc # "reset_save") =>
                /\ ev'.op = "resetPassword" /\ ev'.req = r
                /\ ev'.resp.status = 200
                /\ ev'.resp.message = "Password reset successfully."
                /\ reqs'[r].email = ev'.tok.email
                /\ reqs'[r].password = ev'.password
                /\ users' = users]_vars
    /\ [][\A r \in Reqs :
            (At(r, "resetPassword", "reset_save") /\ reqs'[r] # reqs[r]) =>
                /\ users[reqs[r].email].exists
                /\ Verify(users'[reqs[r].email].password, reqs[r].password)
                /\ users' = [users EXCEPT ![reqs[r].email].password =
                                              users'[reqs[r].email].password]
                /\ ev'.resp = NoResp /\ ev'.err = NoErr]_vars

C12_Witness ==
    /\ ev.op = "resetPassword"
    /\ ev.resp = NoResp /\ ev.err = NoErr
    /\ reqs[ev.req].pc = "idle"
    /\ users[ev.email].password = Hash("pw2")
    /\ users[ev.email].isVerified

\* C13: changePassword replaces the stored hash only in the step a request
\* reaches by supplying an old password that verifies against the stored
\* hash; that step stores the hash of the new password and answers 200 together,
\* so the hash is persisted when the response is sent; a request with both
\* passwords whose old password does not verify fails with 401 and changes no
\* user record.
C13_ChangeNeedsOldPassword ==
    /\ [][\A r \in Reqs :
            (reqs'[r].pc = "cp_save" /\ reqs[r].pc # "cp_save") =>
                /\ ev'.op = "changePassword" /\ ev'.req = r
                /\ reqs'[r].email = ev'.tok.email
                /\ reqs'[r].password = ev'.newPassword
                /\ Verify(users[ev'.tok.email].password, ev'.password)
                /\ ev'.resp = NoResp
                /\ users' = users]_vars
    /\ [][\A r \in Reqs :
            (At(r, "changePassword", "cp_save") /\ reqs'[r] # reqs[r]) =>
                /\ users' = [users EXCEPT ![reqs[r].email].password =
                                              Hash(reqs[r].password)]
                /\ ev'.resp.status = 200 /\ ev'.resp.success]_vars
    /\ [][(ev'.op = "changePassword" /\ users' # users) =>
            \E r \in Reqs : At(r, "changePassword", "cp_save") /\ ev'.req = r]_vars
    /\ [][( /\ StartsRequest("changePassword")
            /\ ev'.password # "" /\ ev'.newPassword # ""
            /\ ~Verify(users[ev'.tok.email].password, ev'.password) )
          => /\ ev'.err.status = 401
             /\ ev'.resp = NoResp
             /\ users' = users
             /\ reqs' = reqs]_vars

C13_Witness ==
    /\ ev.op = "changePassword"
    /\ ev.resp.status = 200
    /\ ev.newPassword = "pw2"
    /\ users[ev.email].password = Hash("pw2")

\* C14: forgotPassword on an email with no user record, or with a record
\* whose isDeleted flag is true, fails with an error: no step of the request
\* answers with a response or a token, sends an e-mail or writes an OTP record.
C14_ForgotNeedsLiveUser ==
    ( /\ ev.op = "forgotPassword"
      /\ ev.email \in Emails
      /\ ~users[ev.email].exists \/ users[ev.email].isDeleted )
    => /\ ev.err # NoErr /\ ~ev.afterResp
       /\ ev.resp = NoResp
       /\ ev.mail = NoMail
       /\ reqs[ev.req].pc = "idle"

\* C15 (as claimed): a deleteUser request whose caller is not the target or
\* has not the admin role fails with 403 and changes no user record.
C15_OtherCallerGets403 ==
    [][( /\ StartsRequest("deleteUser")
         /\ ev'.tok.email # ev'.email \/ ev'.tok.role # "admin" )
       => /\ ev'.err.status = 403
          /\ users' = users
          /\ reqs' = reqs]_vars

\* C15 (amended): deleteUser goes on to the deletion only for a caller whose
\* id is the target's and whose role is admin; the deletion sets isDeleted of
\* the target and nothing else, and no record is ever removed; every other
\* caller fails and changes nothing: with 403 when the target exists and is
\* not deleted, with 404 when the id names no user or a deleted one.
C15_OnlyOwnerAdminDeletes ==
    /\ [][( /\ StartsRequest("deleteUser")
            /\ ev'.tok.email # ev'.email \/ ev'.tok.role # "admin" )
          => /\ ev'.err.status =
                  IF ev'.email \in Emails /\ users[ev'.email].exists
                                          /\ ~users[ev'.email].isDeleted
                  THEN 403 ELSE 404
             /\ ev'.resp = NoResp
             /\ users' = users
             /\ reqs' = reqs]_vars
    /\ [][\A r \in Reqs :
            (reqs'[r].pc = "del_do" /\ reqs[r].pc # "del_do") =>
                /\ ev'.op = "deleteUser" /\ ev'.req = r
                /\ ev'.tok.email = reqs'[r].email
                /\ ev'.tok.role = "admin"
                /\ users' = users]_vars
    /\ [][\A e \in Emails :
            /\ users[e].exists => users'[e].exists
            /\ users'[e].isDeleted # users[e].isDeleted =>
                  /\ \E r \in Reqs : At(r, "deleteUser", "del_do") /\ reqs[r].email = e
                  /\ users' = [users EXCEPT ![e].isDeleted = TRUE]]_vars

C15_Witness ==
    /\ ev.op = "deleteUser"
    /\ ev.resp.status = 200
    /\ users[SeedAdmins[2]].isDeleted
    /\ SessionToken(UserEmail, "user") \in issued
    /\ ~users[UserEmail].isDeleted

\* C16: a deleteUser request that finds isDeleted of its target already true
\* fails with "This account is already deleted." and goes no further; the
\* flag of a user only ever changes from false to true, so it is set at most
\* once and, once true, stays true.
C16_DeleteOnce ==
    /\ [][( /\ StartsRequest("deleteUser")
            /\ ev'.email \in Emails
            /\ users[ev'.email].isDeleted )
          => /\ ev'.err = [status |-> 404,
                           message |-> <<"This account is already deleted.">>]
             /\ ev'.resp = NoResp
             /\ users' = users
             /\ reqs' = reqs]_vars
    /\ [][\A e \in Emails :
            /\ users[e].isDeleted => users'[e].isDeleted
            /\ users'[e].isDeleted # users[e].isDeleted => ~users[e].isDeleted]_vars

C16_Witness ==
    /\ ev.op = "deleteUser"
    /\ ev.err.message = <<"This account is already deleted.">>
    /\ ev.tok = SessionToken(SeedAdmins[2], "admin")
    /\ users[ev.email].isDeleted

\* C17: the seconds reported by the cooldown error of resendOTP and
\* forgotPassword are the whole seconds left until the expiry of the record
\* (the floor of the remaining milliseconds over 1000), not negative and not
\* above the lifetime the record was stored with; and since the clock never
\* runs backwards, the value computed from an unchanged record never grows
\* from one rejected request to the next.
C17_RemainingSeconds ==
    /\ [][( /\ StartsRequest("resendOTP") \/ StartsRequest("forgotPassword")
            /\ ev'.err.status = 403 )
          => LET rec == otps[ev'.email]
                 left == rec.expiresAt - now
                 seconds == ev'.err.message[2]
             IN /\ rec.exists /\ left > 0
                /\ seconds * 1000 <= left /\ left < (seconds + 1) * 1000
                /\ seconds >= 0
                /\ seconds * 1000 <= OtpTtlMs
                /\ otps' = otps /\ now' = now]_vars
    /\ [][\A e \in Emails :
            (otps[e].exists /\ otps'[e] = otps[e]) =>
                (otps[e].expiresAt - now') \div 1000 <= (otps[e].expiresAt - now) \div 1000]_vars

C17_Witness ==
    /\ ev.op \in {"resendOTP", "forgotPassword"}
    /\ ev.err.status = 403
    /\ ev.err.message[2] * 1000 < otps[ev.email].expiresAt - now
    /\ otps[ev.email].expiresAt - now < OtpTtlMs

\* C18: a getAllUsers response with a non-empty page reports, for the page p
\* and limit L of the request (a missing, non-numeric or zero value counting
\* as 1 and 10) and N matching users: totalPage the least number of pages of L
\* that hold N users, currentPage p, prevPage p-1 when p > 1 and else 1,
\* nextPage p+1 when p < totalPage and else 1.
C18_Pagination ==
    (ev.op = "getAllUsers" /\ ev.resp.status = 200) =>
        LET given(q, d) == IF ParseInt(q) \in {{}, {0}} THEN d
                           ELSE CHOOSE n \in ParseInt(q) : TRUE
            p == given(ev.query.page, 1)
            L == given(ev.query.limit, 10)
            pg == ev.resp.pagination
            N == pg.totalItem
        IN /\ p >= 1 /\ L >= 1
           /\ (p - 1) * L < N
           /\ pg.totalPage * L >= N /\ (pg.totalPage - 1) * L < N
           /\ pg.currentPage = p
           /\ pg.limit = L
           /\ pg.prevPage = IF p > 1 THEN p - 1 ELSE 1
           /\ pg.nextPage = IF p < pg.totalPage THEN p + 1 ELSE 1

\* page 1, limit 10, 25 users
C18_Witness ==
    /\ ev.op = "getAllUsers"
    /\ ev.query = [page |-> <<"1">>, limit |-> <<"1", "0">>]
    /\ ev.resp.pagination = [totalPage |-> 3, currentPage |-> 1, prevPage |-> 1,
                             nextPage |-> 2, limit |-> 10, totalItem |-> 25]

\* C19: seedSuperAdmin goes on to create the record of a seed email only when
\* its lookup found no user with that email; a step of the routine changes no
\* record that exists and creates at most the admin record of the email it is
\* at; and when a run has gone through the whole list, every seed email has
\* its record, however many runs came before.
C19_SeedIdempotent ==
    /\ [][(seedPc'.pc = "create" /\ seedPc.pc # "create") =>
            ~users[SeedAdmins[seedPc'.i]].exists]_vars
    /\ [][seedPc' # seedPc =>
            \A e \in Emails :
                /\ users[e].exists => users'[e] = users[e]
                /\ users'[e] # users[e] =>
                      /\ seedPc.pc = "create" /\ e = SeedAdmins[seedPc.i]
                      /\ users'[e] = SeededAdmin]_vars
    /\ []( ( /\ ev.op = "seedSuperAdmin"
             /\ seedPc = SeedIdle
             /\ ev.err = NoErr )
           => \A i \in 1..Len(SeedAdmins) : users[SeedAdmins[i]].exists )

\* a run over a database in which one seed email was registered before
C19_Witness ==
    /\ ev.op = "seedSuperAdmin"
    /\ ev.log
    /\ seedPc = SeedIdle
    /\ users[SeedAdmins[1]] = SeededAdmin
    /\ users[SeedAdmins[2]].role = "user"

\* C20: the cooldown check looks only at the stored record: a resendOTP or
\* forgotPassword request for an email without an unexpired record answers 200
\* and holds a code of its own, whatever another request in flight is about to
\* write; and the write of a request replaces the record by the request's own
\* code without looking at the record. So two overlapping requests both pass
\* the check and the record ends with the code written last.
C20_CooldownAdvisory ==
    /\ [][( /\ StartsRequest("resendOTP") \/ StartsRequest("forgotPassword")
            /\ ev'.email \in Emails
            /\ users[ev'.email].exists
            /\ ~(otps[ev'.email].exists /\ otps[ev'.email].expiresAt > now) )
          => /\ ev'.resp.status = 200 /\ ev'.resp.success
             /\ reqs'[ev'.req].pc \in {"resend_save", "forgot_email"}
             /\ reqs'[ev'.req].otp \in Codes
             /\ otps' = otps]_vars
    /\ [][\A r \in Reqs :
            (reqs[r].pc \in {"resend_save", "forgot_save"} /\ reqs'[r] # reqs[r]) =>
                otps' = [otps EXCEPT ![reqs[r].email] =
                            [exists |-> TRUE, otp |-> reqs[r].otp,
                             expiresAt |-> now + OtpTtlMs]]]_vars

\* one request has just written its code while the other, which passed the
\* check before that write, is about to write a different code
C20_Witness ==
    /\ ev.req = "r1" /\ ev.op \in {"resendOTP", "forgotPassword"}
    /\ reqs["r1"].pc = "idle"
    /\ reqs["r2"].pc \in {"resend_save", "forgot_save"}
    /\ reqs["r2"].email = ev.email
    /\ otps[ev.email].exists
    /\ otps[ev.email].expiresAt = now + OtpTtlMs
    /\ otps[ev.email].otp # reqs["r2"].otp

\* C21: a registerUser request for an email that has a user record answers
\* 200 with the token in its first step; its background phase sends the
\* e-mail, fails at the create and ends there with the error only logged; no
\* step of the request up to and including the create changes a user record
\* or an OTP record, and the request takes no step after the create.
C21_DuplicateRegistration ==
    [][\A r \in Reqs :
          LET starts == reqs[r].pc = "idle"
              email == IF starts THEN reqs'[r].email ELSE reqs[r].email
          IN ( /\ reqs'[r] # reqs[r]
               /\ IF starts THEN reqs'[r].op = "registerUser"
                            ELSE /\ reqs[r].op = "registerUser"
                                 /\ reqs[r].pc \in {"reg_email", "reg_create"}
               /\ users[email].exists )
             => /\ users' = users
                /\ otps' = otps
                /\ starts => /\ ev'.resp.status = 200 /\ ev'.resp.success
                              /\ ev'.resp.token = RegisterToken(email)
                              /\ reqs'[r].pc = "reg_email"
                /\ ~starts => ev'.resp = NoResp /\ ev'.err = NoErr
                /\ reqs[r].pc = "reg_create" => reqs'[r] = Idle /\ ev'.log]_vars

\* a registration under the email of a verified user with an OTP record has
\* answered and sent its e-mail, and is at the create
C21_Witness ==
    /\ ev.op = "registerUser"
    /\ ev.mail.to = ev.email
    /\ reqs[ev.req].pc = "reg_create"
    /\ users[ev.email].isVerified
    /\ otps[ev.email].exists
    /\ otps[ev.email].otp # ev.mail.otp

\* C22: resetPassword stores a new password hash only for an account for
\* which an OTP verification has succeeded (the only source of a token that
\* proves control of the account): the token loginUser hands out on the
\* unverified branch, without a password check, does not reset the password.
C22_ResetNeedsVerification ==
    ( /\ ev.op = "resetPassword"
      /\ ev.email \in Emails
      /\ ev.resp = NoResp /\ ev.err = NoErr )
    => users[ev.email].isVerified

\* C23: the background phase of registerUser goes through e-mail dispatch,
\* hashing and user creation, OTP write, notifications, in this order, and a
\* failure at a step ends the request with the error logged and nothing
\* written by that step. So a registration writes its OTP record only when
\* the user record of the email exists, and a registration whose e-mail
\* dispatch failed creates neither a user record nor an OTP record.
C23_RegisterOrder ==
    /\ [][\A r \in Reqs :
            (reqs[r].op = "registerUser" /\ reqs'[r] # reqs[r]) =>
                /\ \/ <<reqs[r].pc, reqs'[r].pc>> \in
                          {<<"reg_email", "reg_create">>, <<"reg_create", "reg_otp">>,
                           <<"reg_otp", "reg_notify">>, <<"reg_notify", "idle">>}
                   \/ /\ reqs'[r] = Idle /\ ev'.log
                      /\ users' = users /\ otps' = otps
                /\ (reqs[r].pc = "reg_email" /\ ev'.mail = NoMail) =>
                      /\ reqs'[r] = Idle /\ ev'.log
                      /\ users' = users /\ otps' = otps
                /\ ev'.mail # NoMail => reqs[r].pc = "reg_email"
                /\ users' # users => reqs[r].pc = "reg_create"
                /\ otps' # otps => /\ reqs[r].pc = "reg_otp"
                                   /\ users[reqs[r].email].exists
                /\ ev'.resp = NoResp /\ ev'.err = NoErr]_vars
    /\ [](\A r \in Reqs :
            (reqs[r].op = "registerUser" /\ reqs[r].pc \in {"reg_otp", "reg_notify"})
                => users[reqs[r].email].exists)

\* a registration whose e-mail dispatch failed has ended: the token is out,
\* and the email has neither a user record nor an OTP record
C23_Witness ==
    /\ ev.op = "registerUser"
    /\ ev.log
    /\ reqs[ev.req].pc = "idle"
    /\ RegisterToken(ev.email) \in issued
    /\ ~users[ev.email].exists
    /\ ~otps[ev.email].exists

====
